---- MODULE Spec2Model ----
(***************************************************************************)
(* merchant_admin backend: the signed-token service (common), the request *)
(* gate (middleware.AuthMiddleware), and the account handlers that issue   *)
(* and depend on tokens (controllers.AuthController, UserController over   *)
(* services.userService).                                                  *)
(*                                                                         *)
(* Strings that the code inspects character by character (the             *)
(* Authorization header) are sequences of one-character strings followed  *)
(* by at most one encoded token.  Time is counted in ticks, a fixed       *)
(* number of ticks per second, so that the truncation of token timestamps *)
(* to whole seconds is visible.                                           *)
(***************************************************************************)
EXTENDS Integers, Sequences, FiniteSets, TLC

VARIABLES
    env,        \* the JWT_SECRET environment variable at process start
    JwtSecret,  \* common.JwtSecret, the package-level signing key
    now,        \* the wall clock read by time.Now(), in ticks
    issued,     \* history: tokens returned by GenerateToken so far
    users,      \* the users table: id -> row
    nextID,     \* the table's auto-increment counter
    inflight,   \* handler invocations suspended between two store calls
    last,       \* the most recent event: a completed operation with its
                \* response, or a change of the clock
    businesses  \* the businesses table: id -> row

vars == <<env, JwtSecret, now, issued, users, nextID, inflight, last, businesses>>

-----------------------------------------------------------------------------
(* Bounds of the model *)

TicksPerSecond == 2
StartSecond == 1000
MaxIssued == 2
MaxSessions == 1
MaxUsers == 1
MaxInFlight == 2
MaxBusy == 1
MaxRegistered == 2
MaxBusinesses == 1
IntBits == 12

(* Program constants *)

TokenLifetimeHours == 24

Lifetime == TokenLifetimeHours * 3600 * TicksPerSecond

Subjects == {1, 42}

\* The instants at which the clock is read: around the start, and around
\* the expiry of tokens issued near the start.
Instants ==
    LET s == StartSecond * TicksPerSecond
    IN  {s + o : o \in {0, 1, TicksPerSecond, Lifetime - 1, Lifetime, Lifetime + 1}}

-----------------------------------------------------------------------------
(* Secret *)

Fallback == "KJH87sd98HDS8df79SDF98sd8F7SDF8sd7FSD8fsd8F7sd8f7"

EnvValues == {[set |-> FALSE, val |-> ""],
              [set |-> TRUE, val |-> ""],
              [set |-> TRUE, val |-> "prod-secret"]}

\* os.Getenv: the value, or "" when the variable is not set
Getenv(e) == IF e.set THEN e.val ELSE ""

getJWTSecretNoFallback(e) == Getenv(e)

getJWTSecret(e) ==
    IF Getenv(e) # "" THEN Getenv(e) ELSE Fallback

-----------------------------------------------------------------------------
(* Tokens *)

NoToken == [kind |-> "none"]

\* HMAC-SHA256 as an ideal MAC: the tag determines key and message
HS256(key, msg) == [key |-> key, msg |-> msg]

\* time.Time -> jwt.NumericDate: truncated to whole seconds
NewNumericDate(t) == t \div TicksPerSecond

\* the instant (in ticks) a NumericDate stands for
DateTime(d) == d * TicksPerSecond

\* header.payload, the part of the token the tag is computed over
SigningString(tk) ==
    [alg |-> tk.alg, user_id |-> tk.user_id,
     exp |-> tk.exp, iat |-> tk.iat, nbf |-> tk.nbf]

\* The tag segment is unpadded base64url text: 32 bytes fill 42 characters
\* and four bits of the 43rd, whose two low bits (pad) the encoder leaves 0.
EncodeSegment(tag) == [tag |-> tag, pad |-> 0]

\* Decoding is not strict: the spare bits of the last character are dropped.
DecodeSegment(seg) == seg.tag

SignedString(claims, key) ==
    LET unsigned == [kind |-> "jwt", alg |-> "HS256", user_id |-> claims.UserID,
                     exp |-> claims.ExpiresAt, iat |-> claims.IssuedAt,
                     nbf |-> claims.NotBefore]
    IN  [kind |-> "jwt", alg |-> "HS256", user_id |-> claims.UserID,
         exp |-> claims.ExpiresAt, iat |-> claims.IssuedAt,
         nbf |-> claims.NotBefore,
         sig |-> EncodeSegment(HS256(key, SigningString(unsigned)))]

GenerateTokenRoundedUp(userID, secret, t) ==
    SignedString([UserID |-> userID,
                  ExpiresAt |-> NewNumericDate(t + Lifetime) + 1,
                  IssuedAt |-> NewNumericDate(t) + 1,
                  NotBefore |-> NewNumericDate(t) + 1], secret)

\* GenerateToken(userID) with the secret and the clock reading made explicit
GenerateToken(userID, secret, t) ==
    SignedString([UserID |-> userID,
                  ExpiresAt |-> NewNumericDate(t + Lifetime),
                  IssuedAt |-> NewNumericDate(t),
                  NotBefore |-> NewNumericDate(t)], secret)

ParseFail(e) == [ok |-> FALSE, err |-> e, UserID |-> 0]

ValidateClaimsInclusive(tk, t) ==
    IF t > DateTime(tk.exp) THEN "token is expired"
    ELSE IF t < DateTime(tk.nbf) THEN "token is not valid yet"
    ELSE ""

\* the claims validation of ParseWithClaims: valid while nbf <= t < exp
ValidateClaims(tk, t) ==
    IF ~(t < DateTime(tk.exp)) THEN "token is expired"
    ELSE IF t < DateTime(tk.nbf) THEN "token is not valid yet"
    ELSE ""

\* ParseToken(tokenString) with the secret and the clock reading made
\* explicit; s is the string handed in: leading text, then a token or nothing
ParseToken(s, secret, t) ==
    IF s.tok = NoToken \/ s.text # <<>> THEN ParseFail("token is malformed")
    ELSE IF s.tok.alg # "HS256" THEN ParseFail("token is unverifiable")
    ELSE IF DecodeSegment(s.tok.sig) # HS256(secret, SigningString(s.tok))
         THEN ParseFail("signature is invalid")
    ELSE IF ValidateClaims(s.tok, t) # "" THEN ParseFail(ValidateClaims(s.tok, t))
    ELSE [ok |-> TRUE, err |-> "", UserID |-> s.tok.user_id]

-----------------------------------------------------------------------------
(* Strings: leading text, one character per element, then at most one token *)

Str(text, tok) == [text |-> text, tok |-> tok]

EmptyString == Str(<<>>, NoToken)

Bearer == <<"B", "e", "a", "r", "e", "r", " ">>

\* strings.HasPrefix(s, p) for a prefix p made of plain characters; the
\* encoding of a token starts with none of the characters of a scheme name
HasPrefix(s, p) ==
    Len(s.text) >= Len(p) /\ SubSeq(s.text, 1, Len(p)) = p

HasPrefixIgnoreCase(s, p) ==
    Len(s.text) >= Len(p)
    /\ \A i \in 1..Len(p) :
         \/ s.text[i] = p[i]
         \/ (p[i] = "B" /\ s.text[i] = "b")

\* strings.TrimPrefix(s, p)
TrimPrefix(s, p) ==
    IF HasPrefix(s, p)
    THEN Str(SubSeq(s.text, Len(p) + 1, Len(s.text)), s.tok)
    ELSE s

-----------------------------------------------------------------------------
(* middleware.AuthMiddleware *)

\* the effects of the handler on the gin context, in program order
JSON(code, msg) == [do |-> "JSON", code |-> code, error |-> msg]
Abort == [do |-> "Abort"]
Set(key, val) == [do |-> "Set", key |-> key, val |-> val]
CallNext == [do |-> "Next"]

StatusUnauthorized == 401

MsgNoToken == "no token provided"
MsgBadToken == "token invalid or expired"

AuthMiddlewareNextFirst(h, secret, t) ==
    IF h = EmptyString \/ ~HasPrefix(h, Bearer)
    THEN <<JSON(StatusUnauthorized, MsgNoToken), Abort>>
    ELSE LET claims == ParseToken(TrimPrefix(h, Bearer), secret, t)
         IN  IF ~claims.ok
             THEN <<JSON(StatusUnauthorized, MsgBadToken), Abort>>
             ELSE <<CallNext, Set("userID", claims.UserID)>>

AuthMiddlewareAnyCase(h, secret, t) ==
    IF h = EmptyString \/ ~HasPrefixIgnoreCase(h, Bearer)
    THEN <<JSON(StatusUnauthorized, MsgNoToken), Abort>>
    ELSE LET claims == ParseToken(Str(SubSeq(h.text, Len(Bearer) + 1, Len(h.text)), h.tok),
                                  secret, t)
         IN  IF ~claims.ok
             THEN <<JSON(StatusUnauthorized, MsgBadToken), Abort>>
             ELSE <<Set("userID", claims.UserID), CallNext>>

AuthMiddlewareOneMessage(h, secret, t) ==
    IF h = EmptyString \/ ~HasPrefix(h, Bearer)
    THEN <<JSON(StatusUnauthorized, MsgBadToken), Abort>>
    ELSE LET claims == ParseToken(TrimPrefix(h, Bearer), secret, t)
         IN  IF ~claims.ok
             THEN <<JSON(StatusUnauthorized, MsgBadToken), Abort>>
             ELSE <<Set("userID", claims.UserID), CallNext>>

AuthMiddlewareChecksAccount(h, secret, t) ==
    IF h = EmptyString \/ ~HasPrefix(h, Bearer)
    THEN <<JSON(StatusUnauthorized, MsgNoToken), Abort>>
    ELSE LET claims == ParseToken(TrimPrefix(h, Bearer), secret, t)
         IN  IF ~claims.ok
                \/ ~\E id \in DOMAIN users :
                        id = claims.UserID /\ users[id].Status = "active"
             THEN <<JSON(StatusUnauthorized, MsgBadToken), Abort>>
             ELSE <<Set("userID", claims.UserID), CallNext>>

AuthMiddleware(h, secret, t) ==
    IF h = EmptyString \/ ~HasPrefix(h, Bearer)
    THEN <<JSON(StatusUnauthorized, MsgNoToken), Abort>>
    ELSE LET claims == ParseToken(TrimPrefix(h, Bearer), secret, t)
         IN  IF ~claims.ok
             THEN <<JSON(StatusUnauthorized, MsgBadToken), Abort>>
             ELSE <<Set("userID", claims.UserID), CallNext>>

\* what the effects amount to
Ran(effects, what) == \E i \in 1..Len(effects) : effects[i].do = what
HandlerRuns(effects) == Ran(effects, "Next") /\ ~Ran(effects, "Abort")
Answered(effects, code) ==
    \E i \in 1..Len(effects) : effects[i].do = "JSON" /\ effects[i].code = code

-----------------------------------------------------------------------------
(* Requests a client can send *)

AttackerKey == "not-the-secret"

IssuedTokens == {i.tok : i \in issued}

\* one spot of an issued token changed without the secret
Tampered(tk) ==
    {[tk EXCEPT !.user_id = u] : u \in Subjects \ {tk.user_id}}
    \cup {[tk EXCEPT !.exp = tk.exp + 1]}
    \cup {[tk EXCEPT !.sig.pad = p] : p \in 1..3}
    \cup {[tk EXCEPT !.sig.tag = [key |-> tk.sig.tag.key, msg |-> tk.sig.tag.msg,
                                  flipped |-> TRUE]]}
    \cup {[tk EXCEPT !.alg = "none"]}

\* tokens signed by someone who does not hold the process secret
Forged(t) == {GenerateToken(u, AttackerKey, t) : u \in Subjects}

TokenStrings(t) ==
    IssuedTokens \cup UNION {Tampered(tk) : tk \in IssuedTokens} \cup Forged(t)

Basic == <<"B", "a", "s", "i", "c", " ">>
bearer == <<"b", "e", "a", "r", "e", "r", " ">>
BearerNoSpace == <<"B", "e", "a", "r", "e", "r">>
abc == <<"a", "b", "c">>

Headers(t) ==
    {Str(Bearer, tk) : tk \in TokenStrings(t) \cup {NoToken}}
    \cup {Str(s, tk) : s \in {<<>>, bearer, BearerNoSpace, Bearer \o <<" ">>},
                       tk \in IssuedTokens \cup {NoToken}}
    \cup {Str(Basic \o abc, NoToken), Str(Bearer \o abc, NoToken)}

-----------------------------------------------------------------------------
(* Process start *)

NoUsers == [id \in {} |-> 0]

NoBusinesses == [id \in {} |-> 0]

InitProcess ==
    /\ businesses = NoBusinesses
    /\ env \in EnvValues
    /\ JwtSecret = getJWTSecret(env)
    /\ now \in {StartSecond * TicksPerSecond, StartSecond * TicksPerSecond + 1}
    /\ issued = {}
    /\ inflight = {}
    /\ last = [op |-> "start"]

-----------------------------------------------------------------------------
(* The clock *)

\* time passes between two readings of time.Now()
Tick ==
    /\ \E t \in Instants : t > now /\ now' = t
    /\ last' = [op |-> "clock"]
    /\ UNCHANGED <<env, businesses, JwtSecret, issued, users, nextID, inflight>>

\* the wall clock is set back (time.Now() reads the wall clock)
ClockStepBack ==
    /\ \E t \in Instants : t < now /\ now' = t
    /\ last' = [op |-> "clock"]
    /\ UNCHANGED <<env, businesses, JwtSecret, issued, users, nextID, inflight>>

-----------------------------------------------------------------------------
(* The token service and the gate on their own *)

Remember(tok, uid) == issued \cup {[tok |-> tok, uid |-> uid]}

\* a call GenerateToken(u)
Issue(u) ==
    /\ Cardinality(issued) < MaxIssued
    /\ LET tok == GenerateToken(u, JwtSecret, now)
       IN  /\ issued' = Remember(tok, u)
           /\ last' = [op |-> "GenerateToken", userID |-> u, token |-> tok]
    /\ UNCHANGED <<env, businesses, JwtSecret, now, users, nextID, inflight>>

\* a call ParseToken(s)
Parse(s) ==
    /\ last' = [op |-> "ParseToken", str |-> s,
                res |-> ParseToken(s, JwtSecret, now)]
    /\ UNCHANGED <<env, businesses, JwtSecret, now, issued, users, nextID, inflight>>

\* a request to a route behind AuthMiddleware, with Authorization header h
Gate(h) ==
    /\ last' = [op |-> "AuthMiddleware", hdr |-> h,
                effects |-> AuthMiddleware(h, JwtSecret, now)]
    /\ UNCHANGED <<env, businesses, JwtSecret, now, issued, users, nextID, inflight>>

InitToken == InitProcess /\ users = [id \in {} |-> 0] /\ nextID = 1

NextToken ==
    \/ Tick
    \/ ClockStepBack
    \/ \E u \in Subjects : Issue(u)
    \/ \E tk \in TokenStrings(now) \cup {NoToken} : Parse(Str(<<>>, tk))
    \/ \E h \in Headers(now) : Gate(h)

SpecToken == InitToken /\ [][NextToken]_vars

-----------------------------------------------------------------------------
(* Accounts: models.User rows in the users table *)

UserStatusActive == "active"
UserStatusInactive == "inactive"
UserStatusSuspended == "suspended"
UserRoleUser == "user"

Statuses == {UserStatusActive, UserStatusInactive, UserStatusSuspended}

Usernames == {"alice", "bob"}
Emails == {"alice@m.io", "bob@m.io"}
Passwords == {"hunter22", "letmein1"}

\* a password of 72 bytes and the same password with one more byte
MaxKeyLen == 72
Password72 == "pppppppppppppppppppppppppppppppppppppppppppppppppppppppppppppppppppppppp"
Password73 == "ppppppppppppppppppppppppppppppppppppppppppppppppppppppppppppppppppppppppx"

\* the bytes of a password bcrypt uses: the first 72
Key72(pw) == IF pw = Password73 THEN Password72 ELSE pw

\* len(s) for the strings requests are built from
StrLen(s) ==
    CASE s = "" -> 0
      [] s = "al" -> 2
      [] s = "12345" -> 5
      [] s \in {"alice", "bob"} -> IF s = "bob" THEN 3 ELSE 5
      [] s = "nobody" -> 6
      [] s \in Passwords -> 8
      [] s = Password72 -> MaxKeyLen
      [] s = Password73 -> MaxKeyLen + 1
      [] s \in Emails -> IF s = "bob@m.io" THEN 8 ELSE 10

\* bcrypt.GenerateFromPassword: the digest carries its salt and the hash of
\* salt and password
GenerateFromPassword(pw, salt) == [salt |-> salt, hash |-> <<salt, Key72(pw)>>]

\* bcrypt.CompareHashAndPassword(digest, pw) = nil
CompareHashAndPassword(digest, pw) == digest.hash = <<digest.salt, Key72(pw)>>

Salts == {"salt-1"}

\* the draw of a salt that fails: GenerateFromPassword returns an error
NoEntropy == "no entropy"
MsgHashingFailed == "hashing failed"

\* db.Where("username = ?", username).First(&user): the rows found
GetUserByUsernameOrEmail(table, username) ==
    {table[id] : id \in {i \in DOMAIN table :
                            table[i].Username = username \/ table[i].Email = username}}

GetUserByUsername(table, username) ==
    {table[id] : id \in {i \in DOMAIN table : table[i].Username = username}}

\* db.First(&user, id)
GetUserByID(table, id) ==
    {table[i] : i \in {j \in DOMAIN table : j = id}}

ConflictsNever(table, row) == FALSE

\* the unique indexes on username and email
Conflicts(table, row) ==
    \E i \in DOMAIN table \ {row.ID} :
        table[i].Username = row.Username \/ table[i].Email = row.Email

Put(table, row) ==
    [i \in DOMAIN table \cup {row.ID} |-> IF i = row.ID THEN row ELSE table[i]]

\* db.Save(user): writes every column of the row with user's primary key,
\* inserting the row when it is gone; refused by a unique index
SaveOK(table, row) == ~Conflicts(table, row)
Save(table, row) == IF SaveOK(table, row) THEN Put(table, row) ELSE table

\* db.Model(&User{}).Where("id = ?", id).Update("status", st)
UpdateStatusColumn(table, id, st) ==
    [i \in DOMAIN table |-> IF i = id THEN [table[i] EXCEPT !.Status = st] ELSE table[i]]

\* db.Delete(&User{}, id)
Delete(table, id) == [i \in DOMAIN table \ {id} |-> table[i]]

-----------------------------------------------------------------------------
(* controllers: responses *)

ErrorResponse(code, message) ==
    [status |-> code, Code |-> code, Message |-> message, token |-> NoToken]

SuccessResponse(code, message) ==
    [status |-> code, Code |-> code, Message |-> message, token |-> NoToken]

LoginResponse(message, token, expiresAt) ==
    [status |-> 200, Code |-> 200, Message |-> message, token |-> token,
     Type |-> "Bearer", ExpiresAt |-> expiresAt]

MsgBadRequest == "invalid parameters"
MsgBadCredentials == "wrong username or password"
MsgDisabled == "account disabled"
MsgLoginOK == "login succeeded"

MinUsernameLen == 3
MaxUsernameLen == 50
MinPasswordLen == 6

\* the keys of the JSON body of a controller's error response (Error is
\* omitted when empty) and of the gate's gin.H
ResponseBodyKeys(r) == DOMAIN r \ {"status", "token"}
GateBodyKeys(e) == DOMAIN e \ {"do", "code"}

\* binding:"required,min=3,max=50" and binding:"required,min=6"
BindLoginRequest(username, password) ==
    /\ StrLen(username) >= MinUsernameLen
    /\ StrLen(username) <= MaxUsernameLen
    /\ StrLen(password) >= MinPasswordLen

-----------------------------------------------------------------------------
(* AuthController.Login *)

\* tokens already handed out or about to be
Promised == issued \cup {[tok |-> c.token, uid |-> c.user.ID] : c \in {d \in inflight : d.op = "Login"}}

LoginIgnoresStatus(username, password) ==
    LET found == GetUserByUsername(users, username)
        user == CHOOSE u \in found : TRUE
    IN  IF ~BindLoginRequest(username, password) THEN ErrorResponse(400, MsgBadRequest)
        ELSE IF found = {} THEN ErrorResponse(401, MsgBadCredentials)
        ELSE IF ~CompareHashAndPassword(user.Password, password)
             THEN ErrorResponse(401, MsgBadCredentials)
        ELSE SuccessResponse(200, MsgLoginOK)

LoginRevealsUnknown(username, password) ==
    LET found == GetUserByUsername(users, username)
        user == CHOOSE u \in found : TRUE
    IN  IF ~BindLoginRequest(username, password) THEN ErrorResponse(400, MsgBadRequest)
        ELSE IF found = {} THEN ErrorResponse(404, "user not found")
        ELSE IF ~CompareHashAndPassword(user.Password, password)
             THEN ErrorResponse(401, MsgBadCredentials)
        ELSE IF user.Status # "active" THEN ErrorResponse(403, MsgDisabled)
        ELSE SuccessResponse(200, MsgLoginOK)

\* Login up to the status check: the response of a login that fails, or
\* 200 for one that goes on to issue a token
LoginChecks(username, password) ==
    LET found == GetUserByUsername(users, username)
        user == CHOOSE u \in found : TRUE
    IN  IF ~BindLoginRequest(username, password) THEN ErrorResponse(400, MsgBadRequest)
        ELSE IF found = {} THEN ErrorResponse(401, MsgBadCredentials)
        ELSE IF ~CompareHashAndPassword(user.Password, password)
             THEN ErrorResponse(401, MsgBadCredentials)
        ELSE IF user.Status # "active" THEN ErrorResponse(403, MsgDisabled)
        ELSE SuccessResponse(200, MsgLoginOK)

\* a login that fails: answered at once
LoginRejected(username, password) ==
    /\ LoginChecks(username, password).status # 200
    /\ last' = [op |-> "Login", username |-> username, password |-> password,
                resp |-> LoginChecks(username, password)]
    /\ UNCHANGED <<env, businesses, JwtSecret, now, issued, users, nextID, inflight>>

\* a login that passes the checks: the token is generated and the handler
\* goes on to save the row it read (with its last-login time set, a column
\* no handler reads and the rows here leave out)
LoginAccepted(username, password) ==
    /\ LoginChecks(username, password).status = 200
    /\ Cardinality(inflight) < MaxInFlight
    /\ LET user == CHOOSE u \in GetUserByUsername(users, username) : TRUE
           token == GenerateToken(user.ID, JwtSecret, now)
           call == [op |-> "Login", username |-> username, password |-> password,
                    user |-> user, token |-> token]
       IN  /\ Cardinality(Promised \cup {[tok |-> token, uid |-> user.ID]}) <= MaxSessions
           /\ inflight' = inflight \cup {call}
    /\ UNCHANGED <<env, businesses, JwtSecret, now, issued, users, nextID, last>>

LoginRespondSurfacesStoreError(call, dbOK) ==
    /\ call \in inflight
    /\ call.op = "Login"
    /\ users' = IF dbOK THEN Save(users, call.user) ELSE users
    /\ inflight' = inflight \ {call}
    /\ issued' = IF dbOK /\ SaveOK(users, call.user)
                 THEN issued \cup {[tok |-> call.token, uid |-> call.user.ID]}
                 ELSE issued
    /\ last' = [op |-> "Login", username |-> call.username, password |-> call.password,
                account |-> call.user, stored |-> dbOK /\ SaveOK(users, call.user),
                resp |-> IF dbOK /\ SaveOK(users, call.user)
                         THEN LoginResponse(MsgLoginOK, call.token,
                                            NewNumericDate(now + Lifetime))
                         ELSE ErrorResponse(500, "update user failed")]
    /\ UNCHANGED <<env, businesses, JwtSecret, now, nextID>>

\* userService.UpdateUser(user) and the 200 response; dbOK = FALSE is a store
\* error, which the handler ignores
LoginRespond(call, dbOK) ==
    /\ call \in inflight
    /\ call.op = "Login"
    /\ users' = IF dbOK THEN Save(users, call.user) ELSE users
    /\ inflight' = inflight \ {call}
    /\ issued' = issued \cup {[tok |-> call.token, uid |-> call.user.ID]}
    /\ last' = [op |-> "Login", username |-> call.username, password |-> call.password,
                account |-> call.user, stored |-> dbOK /\ SaveOK(users, call.user),
                resp |-> LoginResponse(MsgLoginOK, call.token,
                                       NewNumericDate(now + Lifetime))]
    /\ UNCHANGED <<env, businesses, JwtSecret, now, nextID>>

LogoutRotatesSecret ==
    /\ JwtSecret' = "rotated"
    /\ last' = [op |-> "Logout", resp |-> SuccessResponse(200, "logout succeeded")]
    /\ UNCHANGED <<env, businesses, now, issued, users, nextID, inflight>>

\* AuthController.Logout
Logout ==
    /\ last' = [op |-> "Logout", resp |-> SuccessResponse(200, "logout succeeded")]
    /\ UNCHANGED <<env, businesses, JwtSecret, now, issued, users, nextID, inflight>>

\* AuthController.RefreshToken: authHeader[7:]
SchemeLen == 7

\* a string cut inside its token: what is left is no token
CutToken == Str(<<"?">>, NoToken)

\* s[SchemeLen:] for a string long enough; a token is longer than SchemeLen
SliceFromSchemeLen(s) ==
    IF Len(s.text) >= SchemeLen
    THEN Str(SubSeq(s.text, SchemeLen + 1, Len(s.text)), s.tok)
    ELSE CutToken

\* the answer gin's Recovery middleware gives for a handler that panicked:
\* status 500 and no body
Recovered == [status |-> 500, token |-> NoToken]

RefreshTokenForFirstSubject(h) ==
    /\ LET claims == ParseToken(SliceFromSchemeLen(h), JwtSecret, now)
           newToken == GenerateToken(1, JwtSecret, now)
           resp == IF h = EmptyString THEN ErrorResponse(401, "missing token")
                   ELSE IF Len(h.text) < SchemeLen /\ h.tok = NoToken
                        THEN Recovered
                   ELSE IF ~claims.ok THEN ErrorResponse(401, "token invalid")
                   ELSE LoginResponse("token refreshed", newToken,
                                      NewNumericDate(now + Lifetime))
       IN  /\ last' = [op |-> "RefreshToken", hdr |-> h, resp |-> resp]
           /\ issued' = IF resp.status = 200
                        THEN issued \cup {[tok |-> newToken, uid |-> claims.UserID]}
                        ELSE issued
           /\ Cardinality(Promised \cup issued') <= MaxIssued
    /\ UNCHANGED <<env, businesses, JwtSecret, now, users, nextID, inflight>>

RefreshToken(h) ==
    /\ LET claims == ParseToken(SliceFromSchemeLen(h), JwtSecret, now)
           newToken == GenerateToken(claims.UserID, JwtSecret, now)
           resp == IF h = EmptyString THEN ErrorResponse(401, "missing token")
                   ELSE IF Len(h.text) < SchemeLen /\ h.tok = NoToken
                        THEN Recovered
                   ELSE IF ~claims.ok THEN ErrorResponse(401, "token invalid")
                   ELSE LoginResponse("token refreshed", newToken,
                                      NewNumericDate(now + Lifetime))
       IN  /\ last' = [op |-> "RefreshToken", hdr |-> h, resp |-> resp]
           /\ issued' = IF resp.status = 200
                        THEN issued \cup {[tok |-> newToken, uid |-> claims.UserID]}
                        ELSE issued
           /\ Cardinality(Promised \cup issued') <= MaxIssued
    /\ UNCHANGED <<env, businesses, JwtSecret, now, users, nextID, inflight>>

-----------------------------------------------------------------------------
(* UserController *)

\* UserController.CreateUser -> userService.Register -> userService.CreateUser
CreateUser(username, email, password, salt) ==
    /\ LET row == [ID |-> nextID, Username |-> username, Email |-> email,
                   Password |-> GenerateFromPassword(password, salt),
                   Role |-> UserRoleUser, Status |-> UserStatusActive]
           bound == /\ StrLen(username) >= MinUsernameLen
                    /\ StrLen(username) <= MaxUsernameLen
                    /\ StrLen(password) >= MinPasswordLen
           taken == GetUserByUsernameOrEmail(users, username) # {}
                    \/ GetUserByUsernameOrEmail(users, email) # {}
                    \/ Conflicts(users, row)
       IN  IF ~bound
           THEN /\ last' = [op |-> "CreateUser", resp |-> ErrorResponse(400, MsgBadRequest)]
                /\ UNCHANGED <<users, nextID>>
           ELSE IF taken
           THEN /\ last' = [op |-> "CreateUser",
                            resp |-> ErrorResponse(400, "create user failed")]
                /\ UNCHANGED <<users, nextID>>
           ELSE IF salt = NoEntropy
           THEN /\ last' = [op |-> "CreateUser", cause |-> MsgHashingFailed,
                            resp |-> ErrorResponse(400, "create user failed")]
                /\ UNCHANGED <<users, nextID>>
           ELSE /\ nextID <= MaxUsers
                /\ users' = Put(users, row)
                /\ nextID' = nextID + 1
                /\ last' = [op |-> "CreateUser",
                            resp |-> SuccessResponse(201, "user created")]
    /\ UNCHANGED <<env, businesses, JwtSecret, now, issued, inflight>>

\* a JSON body of POST /api/v1/users: the fields of UserRegisterRequest and
\* possibly the keys role and status, which the request type does not have
NoExtraKeys == [k \in {} |-> ""]
RegisterBodies ==
    {b @@ r @@ st :
        b \in [username : Usernames, email : Emails, password : {"hunter22", "12345"}],
        r \in {NoExtraKeys} \cup {("role" :> x) : x \in {"admin", "merchant"}},
        st \in {NoExtraKeys} \cup {("status" :> x) : x \in {"suspended", "banned"}}}

UserFromRequestWithBodyKeys(body) ==
    [Username |-> body.username, Email |-> body.email, Password |-> body.password,
     Role |-> IF "role" \in DOMAIN body THEN body.role ELSE "",
     Status |-> IF "status" \in DOMAIN body THEN body.status ELSE ""]

\* ShouldBindJSON into UserRegisterRequest and the User built from it: the
\* keys the request type does not declare are dropped, Role and Status stay
\* at their zero value
UserFromRequest(body) ==
    [Username |-> body.username, Email |-> body.email, Password |-> body.password,
     Role |-> "", Status |-> ""]

\* userService.CreateUser: the defaults for an empty role and an empty status
WithDefaults(user) ==
    [user EXCEPT !.Role = IF @ = "" THEN UserRoleUser ELSE @,
                 !.Status = IF @ = "" THEN UserStatusActive ELSE @]

\* UserController.CreateUser on a JSON body, up to MaxRegistered accounts
CreateUserFromBody(body, salt) ==
    /\ LET user == WithDefaults(UserFromRequest(body))
           row == [ID |-> nextID, Username |-> user.Username, Email |-> user.Email,
                   Password |-> GenerateFromPassword(user.Password, salt),
                   Role |-> user.Role, Status |-> user.Status]
           bound == /\ StrLen(user.Username) >= MinUsernameLen
                    /\ StrLen(user.Username) <= MaxUsernameLen
                    /\ StrLen(user.Password) >= MinPasswordLen
           taken == GetUserByUsernameOrEmail(users, user.Username) # {}
                    \/ GetUserByUsernameOrEmail(users, user.Email) # {}
                    \/ Conflicts(users, row)
       IN  IF ~bound
           THEN /\ last' = [op |-> "CreateUser", body |-> body,
                            resp |-> ErrorResponse(400, MsgBadRequest)]
                /\ UNCHANGED <<users, nextID>>
           ELSE IF taken
           THEN /\ last' = [op |-> "CreateUser", body |-> body,
                            resp |-> ErrorResponse(400, "create user failed")]
                /\ UNCHANGED <<users, nextID>>
           ELSE /\ nextID <= MaxRegistered
                /\ users' = Put(users, row)
                /\ nextID' = nextID + 1
                /\ last' = [op |-> "CreateUser", body |-> body, id |-> row.ID,
                            resp |-> SuccessResponse(201, "user created")]
    /\ UNCHANGED <<env, businesses, JwtSecret, now, issued, inflight>>

\* the same handler in the two steps the database sees: the lookup of the
\* username and email with the hashing of the password, then db.Create
CreateUserBegin(username, email, password, salt) ==
    LET row == [ID |-> 0, Username |-> username, Email |-> email,
                Password |-> GenerateFromPassword(password, salt),
                Role |-> UserRoleUser, Status |-> UserStatusActive]
        failure == IF \/ StrLen(username) < MinUsernameLen
                      \/ StrLen(username) > MaxUsernameLen
                      \/ StrLen(password) < MinPasswordLen
                   THEN MsgBadRequest
                   ELSE IF GetUserByUsernameOrEmail(users, username) # {}
                           \/ GetUserByUsernameOrEmail(users, email) # {}
                        THEN "username or email exists"
                   ELSE IF salt = NoEntropy THEN MsgHashingFailed
                   ELSE ""
    IN  /\ IF failure # ""
           THEN /\ last' = [op |-> "CreateUser", cause |-> failure,
                            resp |-> ErrorResponse(400, "create user failed")]
                /\ UNCHANGED inflight
           ELSE /\ Cardinality(inflight) < MaxInFlight
                /\ inflight' = inflight \cup {[op |-> "CreateUser", user |-> row]}
                /\ UNCHANGED last
        /\ UNCHANGED <<env, businesses, JwtSecret, now, issued, users, nextID>>

\* db.Create(user): the row gets the next id unless a unique index refuses it
CreateUserEnd(call) ==
    /\ call \in inflight
    /\ call.op = "CreateUser"
    /\ inflight' = inflight \ {call}
    /\ LET row == [call.user EXCEPT !.ID = nextID]
       IN  IF Conflicts(users, row)
           THEN /\ last' = [op |-> "CreateUser", cause |-> "duplicate entry",
                            resp |-> ErrorResponse(400, "create user failed")]
                /\ UNCHANGED <<users, nextID>>
           ELSE /\ nextID <= MaxRegistered
                /\ users' = Put(users, row)
                /\ nextID' = nextID + 1
                /\ last' = [op |-> "CreateUser", id |-> row.ID,
                            resp |-> SuccessResponse(201, "user created")]
    /\ UNCHANGED <<env, businesses, JwtSecret, now, issued>>

UpdateUserStatusAnyValue(id, st) ==
    /\ users' = UpdateStatusColumn(users, id, st)
    /\ last' = [op |-> "UpdateUserStatus", id |-> id, status |-> st,
                resp |-> SuccessResponse(200, "status updated")]
    /\ UNCHANGED <<env, businesses, JwtSecret, now, issued, nextID, inflight>>

\* UserController.UpdateUserStatus -> ActivateUser / DeactivateUser / SuspendUser
UpdateUserStatus(id, st) ==
    /\ IF st \notin Statuses
       THEN /\ last' = [op |-> "UpdateUserStatus", id |-> id, status |-> st,
                        resp |-> ErrorResponse(400, MsgBadRequest)]
            /\ UNCHANGED users
       ELSE /\ users' = UpdateStatusColumn(users, id, st)
            /\ last' = [op |-> "UpdateUserStatus", id |-> id, status |-> st,
                        resp |-> SuccessResponse(200, "status updated")]
    /\ UNCHANGED <<env, businesses, JwtSecret, now, issued, nextID, inflight>>

\* UserController.ChangePassword -> userService.ChangePassword, up to the
\* point where the row it read is about to be saved
ChangePasswordBegin(id, old, new, salt) ==
    LET found == GetUserByID(users, id)
        user == CHOOSE u \in found : TRUE
        failure == IF old = "" \/ StrLen(new) < MinPasswordLen THEN MsgBadRequest
                   ELSE IF found = {} THEN "user not found"
                   ELSE IF ~CompareHashAndPassword(user.Password, old)
                        THEN "old password wrong"
                   ELSE IF salt = NoEntropy THEN MsgHashingFailed
                   ELSE ""
    IN  /\ IF failure # ""
           THEN /\ last' = [op |-> "ChangePassword", id |-> id, cause |-> failure,
                            resp |-> ErrorResponse(400, failure)]
                /\ UNCHANGED inflight
           ELSE /\ Cardinality(inflight) < MaxInFlight
                /\ inflight' = inflight \cup
                      {[op |-> "ChangePassword", old |-> old, new |-> new,
                        user |-> [user EXCEPT !.Password = GenerateFromPassword(new, salt)]]}
                /\ UNCHANGED last
        /\ UNCHANGED <<env, businesses, JwtSecret, now, issued, users, nextID>>

\* db.Save(user) at the end of userService.ChangePassword, and the response
ChangePasswordEnd(call) ==
    /\ call \in inflight
    /\ call.op = "ChangePassword"
    /\ users' = Save(users, call.user)
    /\ inflight' = inflight \ {call}
    /\ last' = [op |-> "ChangePassword", id |-> call.user.ID,
                old |-> call.old, new |-> call.new,
                resp |-> IF SaveOK(users, call.user)
                         THEN SuccessResponse(200, "password changed")
                         ELSE ErrorResponse(400, "change password failed")]
    /\ UNCHANGED <<env, businesses, JwtSecret, now, issued, nextID>>

\* UserController.UpdateUser up to the save: the row is read and the request's
\* profile fields (not part of the rows here) are set on the copy
UpdateUserBegin(id) ==
    LET found == GetUserByID(users, id)
    IN  /\ IF found = {}
           THEN /\ last' = [op |-> "UpdateUser", id |-> id,
                            resp |-> ErrorResponse(404, "user not found")]
                /\ UNCHANGED inflight
           ELSE /\ Cardinality(inflight) < MaxInFlight
                /\ inflight' = inflight \cup
                      {[op |-> "UpdateUser", user |-> CHOOSE u \in found : TRUE]}
                /\ UNCHANGED last
        /\ UNCHANGED <<env, businesses, JwtSecret, now, issued, users, nextID>>

\* userService.UpdateUser(user) and the response
UpdateUserEnd(call) ==
    /\ call \in inflight
    /\ call.op = "UpdateUser"
    /\ users' = Save(users, call.user)
    /\ inflight' = inflight \ {call}
    /\ last' = [op |-> "UpdateUser", id |-> call.user.ID,
                resp |-> IF SaveOK(users, call.user)
                         THEN SuccessResponse(200, "user updated")
                         ELSE ErrorResponse(500, "update user failed")]
    /\ UNCHANGED <<env, businesses, JwtSecret, now, issued, nextID>>

\* UserController.DeleteUser
DeleteUser(id) ==
    /\ IF GetUserByID(users, id) = {}
       THEN /\ last' = [op |-> "DeleteUser", id |-> id,
                        resp |-> ErrorResponse(404, "user not found")]
            /\ UNCHANGED users
       ELSE /\ users' = Delete(users, id)
            /\ last' = [op |-> "DeleteUser", id |-> id,
                        resp |-> SuccessResponse(200, "user deleted")]
    /\ UNCHANGED <<env, businesses, JwtSecret, now, issued, nextID, inflight>>

-----------------------------------------------------------------------------
(* The server *)

LoginNames == Usernames \cup Emails \cup {"nobody", "al"}
LoginPasswords == Passwords \cup {"12345"}

UserIDs == 1..MaxUsers

ClientHeaders ==
    {Str(Bearer, tk) : tk \in IssuedTokens \cup {NoToken}}
    \cup {EmptyString, Str(Basic \o abc, NoToken)}

\* headers sent to the refresh endpoint: those above, an issued token under
\* another scheme name of the same length, and a header shorter than the
\* scheme
RefreshHeaders ==
    ClientHeaders
    \cup {Str(bearer, tk) : tk \in IssuedTokens}
    \cup {Str(BearerNoSpace, NoToken)}

\* the server started without JWT_SECRET in its environment: no handler reads
\* the environment, and the secret is compared for equality only
Init == InitProcess /\ ~env.set /\ users = NoUsers /\ nextID = 1

\* every operation of the server, on one registration form
Next ==
    \/ Tick
    \/ \E u \in {"alice", "nobody"}, p \in Passwords : LoginRejected(u, p)
    \/ \E p \in Passwords : LoginAccepted("alice", p) /\ Cardinality(inflight') <= MaxBusy
    \/ \E c \in inflight, ok \in BOOLEAN : LoginRespond(c, ok)
    \/ Logout
    \/ \E h \in RefreshHeaders : RefreshToken(h) /\ Cardinality(issued') <= MaxSessions
    \/ \E h \in ClientHeaders : Gate(h)
    \/ \E p \in Passwords, s \in Salts \cup {NoEntropy} :
          CreateUser("alice", "alice@m.io", p, s)
    \/ \E id \in UserIDs, st \in Statuses \cup {"deleted"} : UpdateUserStatus(id, st)
    \/ \E id \in UserIDs, old \in Passwords, new \in Passwords, s \in Salts \cup {NoEntropy} :
          ChangePasswordBegin(id, old, new, s) /\ Cardinality(inflight') <= MaxBusy
    \/ \E c \in inflight : ChangePasswordEnd(c)
    \/ \E id \in UserIDs : UpdateUserBegin(id) /\ Cardinality(inflight') <= MaxBusy
    \/ \E c \in inflight : UpdateUserEnd(c)
    \/ \E id \in UserIDs : DeleteUser(id)

Spec == Init /\ [][Next]_vars

\* the accounts and the login endpoint, with the clock standing still
InitLogin ==
    InitProcess /\ ~env.set /\ now = StartSecond * TicksPerSecond /\ users = NoUsers /\ nextID = 1

NextLogin ==
    \/ \E u \in LoginNames, p \in LoginPasswords : LoginRejected(u, p)
    \/ \E u \in LoginNames, p \in LoginPasswords : LoginAccepted(u, p)
    \/ \E c \in inflight, ok \in BOOLEAN : LoginRespond(c, ok)
    \/ \E u \in Usernames, e \in Emails, p \in LoginPasswords, s \in Salts :
          CreateUser(u, e, p, s)
    \/ \E id \in UserIDs, st \in Statuses : UpdateUserStatus(id, st)

SpecLogin == InitLogin /\ [][NextLogin]_vars

\* the handlers that read and write the users table, MaxInFlight of them at
\* a time, with the clock standing still
NextAccounts ==
    \/ \E p \in Passwords, s \in Salts \cup {NoEntropy} :
          CreateUser("alice", "alice@m.io", p, s)
    \/ \E p \in Passwords : LoginRejected("alice", p)
    \/ \E p \in Passwords : LoginAccepted("alice", p)
    \/ \E c \in inflight, ok \in BOOLEAN : LoginRespond(c, ok)
    \/ \E id \in UserIDs, st \in Statuses \cup {"deleted"} : UpdateUserStatus(id, st)
    \/ \E id \in UserIDs, old \in Passwords, new \in Passwords \cup {"12345"},
          s \in Salts \cup {NoEntropy} : ChangePasswordBegin(id, old, new, s)
    \/ \E c \in inflight : ChangePasswordEnd(c)
    \/ \E id \in UserIDs : UpdateUserBegin(id)
    \/ \E c \in inflight : UpdateUserEnd(c)
    \/ \E id \in UserIDs : DeleteUser(id)

SpecAccounts == InitLogin /\ [][NextAccounts]_vars

\* SetupRoutes: the route groups and the middleware each is registered with
Groups == {"auth", "business", "users"}

MiddlewaresNone(group) == <<>>

Middlewares(group) == IF group = "business" THEN <<"AuthMiddleware">> ELSE <<>>

\* what a request to a route of the group runs: the group's middleware and,
\* when that calls c.Next() or there is none, the route's handler
Chain(group, h, secret, t) ==
    IF Middlewares(group) = <<>> THEN <<CallNext>> ELSE AuthMiddleware(h, secret, t)

\* a request with Authorization header h to a route of the group
Route(group, h) ==
    /\ last' = [op |-> "route", group |-> group, hdr |-> h,
                effects |-> Chain(group, h, JwtSecret, now)]
    /\ UNCHANGED <<env, businesses, JwtSecret, now, issued, users, nextID, inflight>>

NextRoutes ==
    \/ Tick
    \/ \E u \in Subjects : Issue(u)
    \/ \E g \in Groups, h \in Headers(now) : Route(g, h)

SpecRoutes == InitToken /\ [][NextRoutes]_vars

\* tokens issued, presented for refresh in every altered form, and the clock
NextRefresh ==
    \/ Tick
    \/ \E u \in Subjects : Issue(u)
    \/ \E h \in Headers(now) : RefreshToken(h)

SpecRefresh == InitToken /\ [][NextRefresh]_vars

\* registrations racing each other, with the profile update and the deletion
NextRegister ==
    \/ \E u \in Usernames, e \in Emails : CreateUserBegin(u, e, "hunter22", "salt-1")
    \/ \E c \in inflight : CreateUserEnd(c)
    \/ \E id \in 1..MaxRegistered : UpdateUserBegin(id)
    \/ \E c \in inflight : UpdateUserEnd(c)
    \/ \E id \in 1..MaxRegistered : DeleteUser(id)

SpecRegister == InitLogin /\ [][NextRegister]_vars

-----------------------------------------------------------------------------
(* BusinessController and businessService *)

BusinessStatusActive == "active"
BusinessStatusInactive == "inactive"
BusinessStatusSuspended == "suspended"
BusinessStatuses == {BusinessStatusActive, BusinessStatusInactive, BusinessStatusSuspended}

\* the lower-case form that strings.EqualFold compares
Lower(s) ==
    CASE s = "ACTIVE" -> "active"
      [] s = "Suspended" -> "suspended"
      [] OTHER -> s

\* validateBusinessStatus: equal to one of the three under case folding
validateBusinessStatus(status) ==
    \E validStatus \in BusinessStatuses : Lower(status) = Lower(validStatus)

BusinessNames == {"", "Cafe"}
BusinessEmails == {"cafe@m.io", "shop@m.io"}
StatusInputs == {"", "active", "inactive", "suspended", "ACTIVE", "Suspended", "closed"}

\* a JSON body bound into model.Business: a key the body omits leaves the
\* field at its zero value, the empty string
BusinessBodies == [name : BusinessNames, email : BusinessEmails, status : StatusInputs]

GetByEmail(table, email) == {i \in DOMAIN table : table[i].Email = email}

\* BusinessController.CreateBusiness -> businessService.CreateBusiness
CreateBusiness(body) ==
    LET status == IF body.status = "" THEN BusinessStatusActive ELSE body.status
        failure == IF body.name = "" THEN "name is empty"
                   ELSE IF body.status # "" /\ ~validateBusinessStatus(body.status)
                        THEN "status invalid"
                   ELSE IF GetByEmail(businesses, body.email) # {} THEN "email in use"
                   ELSE ""
        id == Cardinality(DOMAIN businesses) + 1
    IN  /\ IF failure # ""
           THEN /\ last' = [op |-> "CreateBusiness", body |-> body,
                            resp |-> [code |-> 500, message |-> failure]]
                /\ UNCHANGED businesses
           ELSE /\ id <= MaxBusinesses
                /\ businesses' = [i \in DOMAIN businesses \cup {id} |->
                                     IF i = id
                                     THEN [ID |-> id, Name |-> body.name,
                                           Email |-> body.email, Status |-> status]
                                     ELSE businesses[i]]
                /\ last' = [op |-> "CreateBusiness", body |-> body, id |-> id,
                            resp |-> [code |-> 201, message |-> "created"]]
        /\ UNCHANGED <<env, JwtSecret, now, issued, users, nextID, inflight>>

\* BusinessController.UpdateBusiness -> businessService.UpdateBusiness ->
\* businessRepository.Update: db.Save writes every column of the bound body
UpdateBusiness(id, body) ==
    LET failure == IF id <= 0 THEN "invalid id"
                   ELSE IF id \notin DOMAIN businesses THEN "not found"
                   ELSE IF body.name = "" THEN "name is empty"
                   ELSE IF body.status # "" /\ ~validateBusinessStatus(body.status)
                        THEN "status invalid"
                   ELSE IF body.email # businesses[id].Email
                           /\ GetByEmail(businesses, body.email) # {}
                        THEN "email in use"
                   ELSE ""
    IN  /\ IF failure # ""
           THEN /\ last' = [op |-> "UpdateBusiness", id |-> id, body |-> body,
                            resp |-> [code |-> 500, message |-> failure]]
                /\ UNCHANGED businesses
           ELSE /\ businesses' = [businesses EXCEPT ![id] =
                                     [ID |-> id, Name |-> body.name, Email |-> body.email,
                                      Status |-> body.status]]
                /\ last' = [op |-> "UpdateBusiness", id |-> id, body |-> body,
                            resp |-> [code |-> 200, message |-> "updated"]]
        /\ UNCHANGED <<env, JwtSecret, now, issued, users, nextID, inflight>>

\* BusinessController.UpdateBusinessStatus -> businessService.UpdateBusinessStatus
UpdateBusinessStatus(id, status) ==
    LET failure == IF id <= 0 THEN "invalid id"
                   ELSE IF status = "" THEN "status is empty"
                   ELSE IF ~validateBusinessStatus(status) THEN "status invalid"
                   ELSE IF id \notin DOMAIN businesses THEN "not found"
                   ELSE ""
    IN  /\ IF failure # ""
           THEN /\ last' = [op |-> "UpdateBusinessStatus", id |-> id, status |-> status,
                            resp |-> [code |-> 500, message |-> failure]]
                /\ UNCHANGED businesses
           ELSE /\ businesses' = [businesses EXCEPT ![id].Status = status]
                /\ last' = [op |-> "UpdateBusinessStatus", id |-> id, status |-> status,
                            resp |-> [code |-> 200, message |-> "status updated"]]
        /\ UNCHANGED <<env, JwtSecret, now, issued, users, nextID, inflight>>

-----------------------------------------------------------------------------
(* The paginated listing *)

MaxInt == 2^(IntBits - 1) - 1
DefaultPage == 1
DefaultPageSize == 10
MaxPageSize == 100

\* the result of an int computation, kept to the width of int
WrapInt(x) ==
    LET m == x % 2^IntBits
    IN  IF m > MaxInt THEN m - 2^IntBits ELSE m

DigitChars == {"0", "1", "2", "3", "4", "5", "6", "7", "8", "9"}
DigitVal(c) ==
    CASE c = "0" -> 0 [] c = "1" -> 1 [] c = "2" -> 2 [] c = "3" -> 3 [] c = "4" -> 4
      [] c = "5" -> 5 [] c = "6" -> 6 [] c = "7" -> 7 [] c = "8" -> 8 [] c = "9" -> 9
DigitChar(d) == CHOOSE c \in DigitChars : DigitVal(c) = d

RECURSIVE DigitsValue(_)
DigitsValue(ds) ==
    IF ds = <<>> THEN 0
    ELSE 10 * DigitsValue(SubSeq(ds, 1, Len(ds) - 1)) + DigitVal(ds[Len(ds)])

\* strconv.Atoi on a string given as its characters: an optional sign, then
\* at least one digit and nothing else, within the range of int
Atoi(str) ==
    LET signed == Len(str) > 0 /\ str[1] \in {"+", "-"}
        neg == Len(str) > 0 /\ str[1] = "-"
        ds == IF signed THEN Tail(str) ELSE str
    IN  IF ds = <<>> \/ \E i \in 1..Len(ds) : ds[i] \notin DigitChars
        THEN [ok |-> FALSE, val |-> 0]
        ELSE LET v == DigitsValue(ds)
             IN  IF v > (IF neg THEN MaxInt + 1 ELSE MaxInt)
                 THEN [ok |-> FALSE, val |-> 0]
                 ELSE [ok |-> TRUE, val |-> IF neg THEN 0 - v ELSE v]

\* strconv.Itoa for a positive number
RECURSIVE Itoa(_)
Itoa(n) ==
    IF n < 10 THEN <<DigitChar(n)>>
    ELSE Append(Itoa(n \div 10), DigitChar(n % 10))

Absent == "absent"

\* c.DefaultQuery: the default only when the key is absent
DefaultQuery(value, default) == IF value = Absent THEN default ELSE value

QueryValues ==
    {Absent, <<>>, <<"a", "b", "c">>, <<"0">>, <<"-", "1">>, <<"1">>, <<"2">>,
     <<"1", "0">>, <<"1", "0", "0">>, <<"1", "0", "1">>, <<"5", "0", "0">>,
     Itoa(MaxInt), Itoa(MaxInt + 1)}

\* the controller's reading of the two query parameters
ControllerPage(value) ==
    LET r == Atoi(DefaultQuery(value, Itoa(DefaultPage)))
    IN  IF ~r.ok \/ r.val <= 0 THEN DefaultPage ELSE r.val
ControllerPageSize(value) ==
    LET r == Atoi(DefaultQuery(value, Itoa(DefaultPageSize)))
    IN  IF ~r.ok \/ r.val <= 0 THEN DefaultPageSize ELSE r.val

\* businessService.GetBusinessesWithPagination: its own defaults and the cap
ServicePage(page) == IF page <= 0 THEN DefaultPage ELSE page
ServicePageSize(pageSize) ==
    IF pageSize <= 0 THEN DefaultPageSize
    ELSE IF pageSize > MaxPageSize THEN MaxPageSize ELSE pageSize

\* businessRepository.GetWithPagination: offset := (page - 1) * pageSize
Offset(page, pageSize) == WrapInt(WrapInt(page - 1) * pageSize)

\* BusinessController.GetBusinessesWithPagination: the response reports the
\* controller's page and pageSize, the query runs with the service's
GetBusinessesWithPagination(pageValue, pageSizeValue) ==
    LET page == ControllerPage(pageValue)
        pageSize == ControllerPageSize(pageSizeValue)
        usedPage == ServicePage(page)
        usedSize == ServicePageSize(pageSize)
    IN  /\ last' = [op |-> "GetBusinessesWithPagination",
                    pageValue |-> pageValue, pageSizeValue |-> pageSizeValue,
                    resp |-> [code |-> 200, page |-> page, pageSize |-> pageSize],
                    query |-> [page |-> usedPage, limit |-> usedSize,
                               offset |-> Offset(usedPage, usedSize)]]
        /\ UNCHANGED <<env, businesses, JwtSecret, now, issued, users, nextID, inflight>>

NextBusiness ==
    \/ \E b \in BusinessBodies : CreateBusiness(b)
    \/ \E id \in 0..MaxBusinesses, b \in BusinessBodies : UpdateBusiness(id, b)
    \/ \E id \in 0..MaxBusinesses, st \in StatusInputs : UpdateBusinessStatus(id, st)
    \/ \E p \in QueryValues, ps \in QueryValues : GetBusinessesWithPagination(p, ps)

SpecBusiness == InitLogin /\ [][NextBusiness]_vars

\* accounts created from JSON bodies, then given another status or deleted
NextCreate ==
    \/ \E b \in RegisterBodies : CreateUserFromBody(b, "salt-1")
    \/ \E id \in 1..MaxRegistered, st \in Statuses : UpdateUserStatus(id, st)
    \/ \E id \in 1..MaxRegistered : DeleteUser(id)

SpecCreate == InitLogin /\ [][NextCreate]_vars

\* registration, password change and login, with two salts and with
\* passwords up to and past the length bcrypt uses
TwoSalts == Salts \cup {"salt-2"}
RegisteredPasswords == {"hunter22", Password72}
TriedPasswords == RegisteredPasswords \cup {"letmein1", Password73}

NextPasswords ==
    \/ \E p \in RegisteredPasswords, s \in TwoSalts : CreateUser("alice", "alice@m.io", p, s)
    \/ \E q \in TriedPasswords : LoginRejected("alice", q)
    \/ \E q \in TriedPasswords : LoginAccepted("alice", q)
    \/ \E c \in inflight, ok \in BOOLEAN : LoginRespond(c, ok)
    \/ \E id \in UserIDs, old \in TriedPasswords, new \in RegisteredPasswords, s \in TwoSalts :
          ChangePasswordBegin(id, old, new, s)
    \/ \E c \in inflight : ChangePasswordEnd(c)
    \/ \E id \in UserIDs, st \in Statuses : UpdateUserStatus(id, st)

SpecPasswords == InitLogin /\ [][NextPasswords]_vars

-----------------------------------------------------------------------------
(* Properties *)

TheBearerScheme == <<"B", "e", "a", "r", "e", "r", " ">>

\* the header is "Bearer " followed by a string that ParseToken accepts now
PassesGate(h) ==
    /\ Len(h.text) >= 7
    /\ SubSeq(h.text, 1, 7) = TheBearerScheme
    /\ ParseToken(Str(SubSeq(h.text, 8, Len(h.text)), h.tok), JwtSecret, now).ok

\* C1: a request through AuthMiddleware reaches the downstream handler if and
\* only if its Authorization header starts with exactly "Bearer " and the
\* rest passes ParseToken; every other request is answered 401 and aborted,
\* and the downstream handler does not run.
C1_GateAdmitsExactlyVerifiedBearer ==
    last.op = "AuthMiddleware" =>
        /\ HandlerRuns(last.effects) <=> PassesGate(last.hdr)
        /\ ~PassesGate(last.hdr) =>
              /\ Answered(last.effects, 401)
              /\ Ran(last.effects, "Abort")
              /\ ~Ran(last.effects, "Next")

\* a valid token sent under the lowercase scheme "bearer " was turned away
C1_Witness ==
    /\ last.op = "AuthMiddleware"
    /\ last.hdr.text = <<"b", "e", "a", "r", "e", "r", " ">>
    /\ last.hdr.tok \in IssuedTokens
    /\ ParseToken(Str(<<>>, last.hdr.tok), JwtSecret, now).ok
    /\ Answered(last.effects, 401)
    /\ ~HandlerRuns(last.effects)

\* C2: when AuthMiddleware lets a request through, the context holds, under
\* the key "userID" and nothing else, the subject the presented token was
\* issued for, and it is stored before the next handler is called.
C2_GatePublishesSubjectBeforeNext ==
    (last.op = "AuthMiddleware" /\ Ran(last.effects, "Next")) =>
        LET e == last.effects
        IN  /\ \A j \in 1..Len(e) : e[j].do = "Next" =>
                  \E i \in 1..(j - 1) :
                      /\ e[i].do = "Set"
                      /\ e[i].key = "userID"
                      /\ \E rec \in issued :
                            /\ rec.tok.sig.tag = last.hdr.tok.sig.tag
                            /\ e[i].val = rec.uid
            /\ \A i \in 1..Len(e) : e[i].do = "Set" => e[i].key = "userID"
            /\ Cardinality({i \in 1..Len(e) : e[i].do = "Set"}) = 1

\* a token issued for subject 42 passed the gate and the handler saw 42
C2_Witness ==
    /\ last.op = "AuthMiddleware"
    /\ HandlerRuns(last.effects)
    /\ [tok |-> last.hdr.tok, uid |-> 42] \in issued
    /\ last.effects[1] = [do |-> "Set", key |-> "userID", val |-> 42]

\* C3: for every subject x, ParseToken(GenerateToken(x)), evaluated right
\* after issuance with the same secret, succeeds with UserID = x.
C3_RoundTrip ==
    /\ last.op = "GenerateToken" =>
          LET r == ParseToken(Str(<<>>, last.token), JwtSecret, now)
          IN  r.ok /\ r.UserID = last.userID
    /\ last.op = "ParseToken" =>
          \A rec \in issued :
              (rec.tok = last.str.tok /\ NewNumericDate(now) = rec.tok.iat) =>
                  last.res.ok /\ last.res.UserID = rec.uid

\* a token issued for 42 was parsed within the second of its issuance
C3_Witness ==
    /\ last.op = "ParseToken"
    /\ [tok |-> last.str.tok, uid |-> 42] \in issued
    /\ NewNumericDate(now) = last.str.tok.iat
    /\ last.res = [ok |-> TRUE, err |-> "", UserID |-> 42]

IssuedAsStated ==
    last.op = "GenerateToken" =>
        /\ last.token.iat = NewNumericDate(now)
        /\ last.token.nbf = NewNumericDate(now)
        /\ last.token.exp = NewNumericDate(now) + 24 * 3600

\* C4 as stated: a token issued at t carries iat = nbf = t, exp = t + 24h;
\* verifying it fails with Expired exactly when now > exp, with NotYetValid
\* exactly when now < nbf, and succeeds whenever nbf <= now <= exp.
C4_ExpiryInclusive ==
    /\ IssuedAsStated
    /\ (last.op = "ParseToken" /\ last.str.tok \in IssuedTokens) =>
          LET tk == last.str.tok
          IN  /\ last.res.err = "token is expired" <=> now > DateTime(tk.exp)
              /\ last.res.err = "token is not valid yet" <=> now < DateTime(tk.nbf)
              /\ (DateTime(tk.nbf) <= now /\ now <= DateTime(tk.exp)) => last.res.ok

\* C4 amended: the same, with Expired exactly when now >= exp and success
\* exactly when nbf <= now < exp.
C4_ExpiryExclusive ==
    /\ IssuedAsStated
    /\ (last.op = "ParseToken" /\ last.str.tok \in IssuedTokens) =>
          LET tk == last.str.tok
          IN  /\ last.res.err = "token is expired" <=> now >= DateTime(tk.exp)
              /\ last.res.err = "token is not valid yet" <=> now < DateTime(tk.nbf)
              /\ last.res.ok <=> (DateTime(tk.nbf) <= now /\ now < DateTime(tk.exp))

\* an issued token was verified at the very instant of its expiresAt
C4_Witness ==
    /\ last.op = "ParseToken"
    /\ last.str.tok \in IssuedTokens
    /\ now = DateTime(last.str.tok.exp)
    /\ last.res.err = "token is expired"

\* C5: verification succeeds only for a string that is exactly a token
\* signed with the process secret: a token differing from an issued one in
\* one character of its claims or tag, or signed under another secret,
\* fails ParseToken and is turned away by AuthMiddleware.
C5_OnlyExactTokensVerify ==
    /\ (last.op = "ParseToken" /\ last.res.ok) => last.str.tok \in IssuedTokens
    /\ (last.op = "AuthMiddleware" /\ HandlerRuns(last.effects)) =>
          last.hdr.tok \in IssuedTokens

\* C7: the signing secret is the value of JWT_SECRET when that is set to a
\* non-empty value at process start and the literal fallback otherwise; it
\* is never empty.
C7_SecretFromEnvOrFallback ==
    /\ JwtSecret = (IF env.set /\ env.val # "" THEN env.val
                    ELSE "KJH87sd98HDS8df79SDF98sd8F7SDF8sd7FSD8fsd8F7sd8f7")
    /\ JwtSecret # ""

\* JWT_SECRET was set but empty, and a token was signed with the fallback
C7_Witness ==
    /\ env = [set |-> TRUE, val |-> ""]
    /\ last.op = "GenerateToken"
    /\ last.token.sig.tag.key = "KJH87sd98HDS8df79SDF98sd8F7SDF8sd7FSD8fsd8F7sd8f7"

\* C6: JwtSecret is set at process start and no operation changes it, so a
\* token issued at any point of a run verifies, with the subject it was
\* issued for, at every later instant before its expiry.
C6_SecretNeverChanges ==
    /\ [][JwtSecret' = JwtSecret]_vars
    /\ [](\A rec \in issued :
            (DateTime(rec.tok.nbf) <= now /\ now < DateTime(rec.tok.exp)) =>
                ParseToken(Str(<<>>, rec.tok), JwtSecret, now)
                    = [ok |-> TRUE, err |-> "", UserID |-> rec.uid])

\* a token from a login passed the gate more than a second after issuance,
\* with other operations in between
C6_Witness ==
    /\ last.op = "AuthMiddleware"
    /\ last.hdr.tok \in IssuedTokens
    /\ now > DateTime(last.hdr.tok.iat + 1)
    /\ HandlerRuns(last.effects)
    /\ users = NoUsers
    /\ nextID > 1

\* the rows the login's username finds now
AccountsNamed(username) == {users[id] : id \in {i \in DOMAIN users : users[i].Username = username}}

\* C8: Login returns a token only if the looked-up account was active and
\* the supplied password verified against its digest; a known identifier
\* with the correct password and a status other than active gets 403 and no
\* token; a login that fails returns no token.
C8_TokenOnlyForActiveVerified ==
    last.op = "Login" =>
        /\ last.resp.token # NoToken <=> last.resp.status = 200
        /\ last.resp.status = 200 =>
              /\ last.account.Username = last.username
              /\ last.account.Status = "active"
              /\ last.account.Password.hash = <<last.account.Password.salt, last.password>>
              /\ last.resp.token.user_id = last.account.ID
        /\ last.resp.status # 200 =>
              \A a \in AccountsNamed(last.username) :
                  (a.Status # "active"
                   /\ a.Password.hash = <<a.Password.salt, last.password>>)
                      => last.resp.status = 403

\* a suspended account logged in with its correct password and got 403
C8_Witness ==
    /\ last.op = "Login"
    /\ last.resp.status = 403
    /\ last.resp.token = NoToken
    /\ \E a \in AccountsNamed(last.username) :
          /\ a.Status = "suspended"
          /\ a.Password.hash = <<a.Password.salt, last.password>>

\* C9: Login checks the status before the password: a well-formed login for
\* an existing account that is not active is answered 403 whatever the
\* password, and 401 for a wrong password goes to active accounts only.
C9_StatusCheckedBeforePassword ==
    (last.op = "Login" /\ last.resp.status \in {401, 403}) =>
        \A a \in AccountsNamed(last.username) :
            a.Status # "active" => last.resp.status = 403

\* C10: login accepts the email of an account as the identifier: a
\* well-formed login with the email and the correct password of an active
\* account is not turned away.
C10_LoginByEmail ==
    (last.op = "Login" /\ last.resp.status # 200) =>
        ~\E id \in DOMAIN users :
            /\ users[id].Email = last.username
            /\ users[id].Status = "active"
            /\ users[id].Password.hash = <<users[id].Password.salt, last.password>>

\* C11: a well-formed login for a name no account has is answered exactly
\* as a login for an existing active account with a wrong password: same
\* status, code and message.
C11_UnknownAndWrongPasswordAlike ==
    (/\ last.op = "Login"
     /\ BindLoginRequest(last.username, last.password)
     /\ AccountsNamed(last.username) = {}) =>
        /\ last.resp.status = 401
        /\ \A id \in DOMAIN users, q \in LoginPasswords :
              (/\ users[id].Status = "active"
               /\ BindLoginRequest(users[id].Username, q)
               /\ users[id].Password.hash # <<users[id].Password.salt, q>>)
                  => LoginChecks(users[id].Username, q) = last.resp

\* a login for an unknown name was answered while an active account existed
\* whose wrong-password answer it can be compared with
C11_Witness ==
    /\ last.op = "Login"
    /\ BindLoginRequest(last.username, last.password)
    /\ AccountsNamed(last.username) = {}
    /\ \E id \in DOMAIN users, q \in LoginPasswords :
          /\ users[id].Status = "active"
          /\ BindLoginRequest(users[id].Username, q)
          /\ users[id].Password.hash # <<users[id].Password.salt, q>>

\* C12: a successful login's response has Type "Bearer", a token signed
\* with the secret whose subject is the account the password was checked
\* against, and an ExpiresAt equal to the exp claim of that token, however
\* long the handler takes between issuing the token and answering.
C12_ExpiresAtIsTokenExpiry ==
    (last.op = "Login" /\ last.resp.status = 200) =>
        /\ last.resp.Type = "Bearer"
        /\ DecodeSegment(last.resp.token.sig) = HS256(JwtSecret, SigningString(last.resp.token))
        /\ last.resp.token.user_id = last.account.ID
        /\ last.resp.ExpiresAt = last.resp.token.exp

\* C13: recording the last login is best-effort: a login whose checks passed
\* and whose store update failed is answered 200 with the token and the
\* success message, as one whose update went through.
C13_StoreFailureNotSurfaced ==
    (last.op = "Login" /\ "stored" \in DOMAIN last) =>
        /\ last.resp.status = 200
        /\ last.resp.Message = MsgLoginOK
        /\ last.resp.token # NoToken
        /\ [tok |-> last.resp.token, uid |-> last.account.ID] \in issued

\* a login was answered 200 after its store update failed
C13_Witness ==
    /\ last.op = "Login"
    /\ "stored" \in DOMAIN last
    /\ ~last.stored
    /\ last.resp.status = 200

\* C14: the stored password digest of an account changes only when a
\* password change saves it: no step of Login or of the profile update
\* changes or reverts it, under any interleaving with a password change.
C14_DigestChangesOnlyByPasswordChange ==
    [][\A id \in DOMAIN users \cap DOMAIN users' :
          users'[id].Password # users[id].Password =>
              \E c \in inflight \ inflight' :
                  /\ c.op = "ChangePassword"
                  /\ c.user.ID = id
                  /\ users'[id].Password = c.user.Password]_vars

\* C15: whether an issued token passes the gate is decided by the token,
\* the secret and the clock alone: whatever happened before (Logout,
\* refresh, password change, suspension or deletion of its account), it
\* passes at every instant before its expiry and at none from then on.
C15_GateOutcomeIgnoresHistory ==
    (/\ last.op = "AuthMiddleware"
     /\ last.hdr.text = TheBearerScheme
     /\ last.hdr.tok \in IssuedTokens) =>
        (HandlerRuns(last.effects) <=> now < DateTime(last.hdr.tok.exp))

\* a token passed the gate while its account was suspended
C15_Witness ==
    /\ last.op = "AuthMiddleware"
    /\ last.hdr.tok \in IssuedTokens
    /\ HandlerRuns(last.effects)
    /\ \E id \in DOMAIN users :
          id = last.hdr.tok.user_id /\ users[id].Status = "suspended"

\* C16: a request the gate turns away is answered 401 with a body made of
\* the one key "error"; its message is the no-token message when the header
\* is absent or does not start with "Bearer ", the invalid-token message
\* when the Bearer token does not verify, and the two messages differ.
C16_GateMessagesDistinguish ==
    (last.op = "AuthMiddleware" /\ ~HandlerRuns(last.effects)) =>
        LET e == last.effects[1]
            bearer_sent == /\ Len(last.hdr.text) >= 7
                           /\ SubSeq(last.hdr.text, 1, 7) = TheBearerScheme
        IN  /\ e.do = "JSON"
            /\ e.code = 401
            /\ DOMAIN e = {"do", "code", "error"}
            /\ e.error = IF bearer_sent THEN MsgBadToken ELSE MsgNoToken
            /\ MsgNoToken # MsgBadToken

\* an issued token sent as Bearer after its expiry got the invalid-token
\* message
C16_Witness ==
    /\ last.op = "AuthMiddleware"
    /\ last.hdr.text = TheBearerScheme
    /\ last.hdr.tok \in IssuedTokens
    /\ ~(now < DateTime(last.hdr.tok.exp))
    /\ last.effects[1] = JSON(401, MsgBadToken)

\* C17: every failure answered by the gate, by Login and by RefreshToken has
\* a JSON body that holds a machine code and a message.
C17_FailuresCarryCodeAndMessage ==
    /\ (last.op = "AuthMiddleware" /\ ~HandlerRuns(last.effects)) =>
          {"Code", "Message"} \subseteq GateBodyKeys(last.effects[1])
    /\ (last.op \in {"Login", "RefreshToken"} /\ last.resp.status # 200) =>
          {"Code", "Message"} \subseteq ResponseBodyKeys(last.resp)

\* C18: when hashing the password fails during account creation or
\* password change, the client is answered 500 and the stored accounts are
\* left as they were.
C18_HashFailureIsServerError ==
    [][(/\ last'.op \in {"CreateUser", "ChangePassword"}
        /\ "cause" \in DOMAIN last'
        /\ last'.cause = MsgHashingFailed) =>
            /\ last'.resp.status = 500
            /\ users' = users]_vars

\* C19: two digests of one password differ and both verify against it; the
\* digest of a password verifies against no other password; a login for a
\* registered account passes the password check exactly when the password
\* sent is the one the stored digest was computed from.
C19_OnlyTheRegisteredPasswordVerifies ==
    /\ \A p \in TriedPasswords, s1 \in TwoSalts : \A s2 \in TwoSalts \ {s1} :
          /\ GenerateFromPassword(p, s1) # GenerateFromPassword(p, s2)
          /\ CompareHashAndPassword(GenerateFromPassword(p, s1), p)
          /\ CompareHashAndPassword(GenerateFromPassword(p, s2), p)
    /\ (last.op = "Login" /\ BindLoginRequest(last.username, last.password)) =>
          LET rows == IF last.resp.status = 200 THEN {last.account}
                      ELSE AccountsNamed(last.username)
          IN  \A a \in rows :
                  last.resp.status \in {200, 403} <=> last.password = a.Password.hash[2]

\* C20: RefreshToken issues a token exactly for the headers the gate
\* admits, "Bearer " followed by a token that verifies; every other header
\* is answered 401 and gets no token.
C20_RefreshAppliesGateRule ==
    last.op = "RefreshToken" =>
        /\ last.resp.status = 200 <=> PassesGate(last.hdr)
        /\ ~PassesGate(last.hdr) =>
              /\ last.resp.status = 401
              /\ last.resp.token = NoToken

\* C21: a successful RefreshToken returns a token signed with the secret
\* whose subject is the subject of the presented token and whose exp is 24
\* hours after the refresh time; the presented token had not expired at the
\* refresh time.
C21_RefreshKeepsSubject ==
    (last.op = "RefreshToken" /\ last.resp.status = 200) =>
        /\ last.resp.token.user_id = last.hdr.tok.user_id
        /\ last.resp.token.exp = (now + Lifetime) \div TicksPerSecond
        /\ now < last.hdr.tok.exp * TicksPerSecond
        /\ DecodeSegment(last.resp.token.sig) = HS256(JwtSecret, SigningString(last.resp.token))
        /\ \E rec \in issued : rec.tok = last.resp.token /\ rec.uid = last.hdr.tok.user_id

\* a token for subject 42 was refreshed a second or more after it was issued
C21_Witness ==
    /\ last.op = "RefreshToken"
    /\ last.resp.status = 200
    /\ last.hdr.tok.user_id = 42
    /\ last.resp.token.user_id = 42
    /\ last.resp.token.exp > last.hdr.tok.exp

\* C22: a status written by UpdateUserStatus is not undone by a Login or a
\* profile UpdateUser running alongside: no step of these two changes the
\* stored status of an account.
C22_StatusNotUndone ==
    [][last'.op \in {"Login", "UpdateUser"} =>
          \A id \in DOMAIN users \cap DOMAIN users' :
              users'[id].Status = users[id].Status]_vars

\* C23: a handler of the /api/v1/users routes (create, update, delete,
\* password change, status change) runs only for a request that carries a
\* valid Bearer token.
C23_UserRoutesGated ==
    (last.op = "route" /\ last.group = "users" /\ HandlerRuns(last.effects)) =>
        PassesGate(last.hdr)

\* C24: a handler of the /api/v1/business routes runs only for a request
\* whose Bearer token AuthMiddleware verified; every other request to these
\* routes is answered 401 and its handler does not run.
C24_BusinessRoutesGated ==
    (last.op = "route" /\ last.group = "business") =>
        /\ HandlerRuns(last.effects) <=> PassesGate(last.hdr)
        /\ ~PassesGate(last.hdr) =>
              /\ Answered(last.effects, 401)
              /\ ~Ran(last.effects, "Next")

\* a request to a business route with a token signed with another key was
\* turned away
C24_Witness ==
    /\ last.op = "route"
    /\ last.group = "business"
    /\ last.hdr.text = TheBearerScheme
    /\ last.hdr.tok \in Forged(now)
    /\ Answered(last.effects, 401)
    /\ ~HandlerRuns(last.effects)

\* C25: ChangePassword replaces the stored digest only when the old
\* password sent verifies against the digest it replaces and the new one has
\* at least 6 characters; a ChangePassword that fails leaves the accounts as
\* they were; after one that succeeds the new password passes the password
\* check and the old one, when it is another password, does not.
C25_ChangePasswordChecksOld ==
    [][/\ (last'.op = "ChangePassword" /\ last'.resp.status # 200) => users' = users
       /\ \A c \in inflight \ inflight' :
             (c.op = "ChangePassword" /\ users' # users) =>
                /\ StrLen(c.new) >= MinPasswordLen
                /\ users'[c.user.ID].Password.hash[2] = c.new
                /\ c.old # c.new => users'[c.user.ID].Password.hash[2] # c.old
                /\ c.user.ID \in DOMAIN users =>
                      users[c.user.ID].Password.hash[2] = c.old]_vars

\* C26: under every interleaving of registrations no two stored accounts
\* share a username or an email, and a registration that finds its
\* username or email taken, at the lookup or at the insert, fails and
\* creates no account.
C26_UsernamesAndEmailsUnique ==
    /\ [](\A i \in DOMAIN users, j \in DOMAIN users :
             i # j => /\ users[i].Username # users[j].Username
                      /\ users[i].Email # users[j].Email)
    /\ [][\A c \in inflight \ inflight' :
             (/\ c.op = "CreateUser"
              /\ \E i \in DOMAIN users : \/ users[i].Username = c.user.Username
                                         \/ users[i].Email = c.user.Email) =>
                 /\ users' = users
                 /\ last'.resp.status = 400]_vars

\* a registration that passed the lookup lost the race for its username at
\* the insert, next to an account with the other username
C26_Witness ==
    /\ last.op = "CreateUser"
    /\ "cause" \in DOMAIN last
    /\ last.cause = "duplicate entry"
    /\ Cardinality(DOMAIN users) = 1
    /\ inflight = {}

\* C27: after any sequence of account operations every stored account has
\* one of the statuses active, inactive, suspended, and UpdateUserStatus
\* with any other value answers 400 and leaves the table as it was.
C27_StatusAlwaysValid ==
    /\ [](\A i \in DOMAIN users : users[i].Status \in Statuses)
    /\ [][(last'.op = "UpdateUserStatus" /\ last'.status \notin Statuses) =>
             /\ last'.resp.status = 400
             /\ users' = users]_vars

\* a status outside the three was asked for an existing account
C27_Witness ==
    /\ last.op = "UpdateUserStatus"
    /\ last.status \notin Statuses
    /\ last.id \in DOMAIN users
    /\ last.resp.status = 400

\* C28: every account created through POST /api/v1/users is stored with
\* role "user" and status "active", whatever keys the body carries.
C28_NewAccountIsActiveUser ==
    [][\A i \in DOMAIN users' \ DOMAIN users :
          /\ users'[i].Role = UserRoleUser
          /\ users'[i].Status = UserStatusActive]_vars

\* an account was created from a body that asked for the role admin and
\* the status suspended
C28_Witness ==
    /\ last.op = "CreateUser"
    /\ last.resp.status = 201
    /\ "role" \in DOMAIN last.body /\ last.body.role = "admin"
    /\ "status" \in DOMAIN last.body /\ last.body.status = "suspended"
    /\ last.id \in DOMAIN users

\* C29: after any sequence of CreateBusiness, UpdateBusiness and
\* UpdateBusinessStatus every stored business has one of the statuses
\* active, inactive, suspended, and an UpdateBusiness whose body omits the
\* status leaves the record with the status it had.
C29_BusinessStatusValid ==
    /\ [](\A i \in DOMAIN businesses : businesses[i].Status \in BusinessStatuses)
    /\ [][(/\ last'.op = "UpdateBusiness"
           /\ last'.resp.code = 200
           /\ last'.body.status = "") =>
              businesses'[last'.id].Status = businesses[last'.id].Status]_vars

\* C30: the page and pageSize of the response are those the query ran with,
\* the page is at least 1, the page size is between 1 and 100, and the
\* offset is not negative, for every value of the two query parameters.
C30_ReportedPageIsUsedPage ==
    last.op = "GetBusinessesWithPagination" =>
        /\ last.resp.page = last.query.page
        /\ last.resp.pageSize = last.query.limit
        /\ last.query.page >= 1
        /\ last.query.limit >= 1 /\ last.query.limit <= MaxPageSize
        /\ last.query.offset >= 0

====
